---- MODULE Spec2Model ----
(***************************************************************************)
(* A model of the MPTCP connection lookup of package mptcp                 *)
(* (check_others.go): the address encoder (hostToHex, u16PortToHex), the   *)
(* table scanner (mptcpTableReaderLinux, newMPTCPTableEntry), the lookup   *)
(* (checkMPTCP, lookupMPTCPLinux) and the capability probe (mptcpEnabled), *)
(* in their Linux and non-Linux builds.                                    *)
(*                                                                         *)
(* A Go string or []byte is a sequence of one-character strings, so that   *)
(* formatting, case conversion, line splitting and field splitting are     *)
(* computed character by character.                                        *)
(***************************************************************************)
EXTENDS Integers, Sequences, FiniteSets, TLC

(***************************************************************************)
(* Characters and the library conversions the code calls.                  *)
(***************************************************************************)
LowerHexDigits == <<"0","1","2","3","4","5","6","7","8","9","a","b","c","d","e","f">>

LowerAlpha == <<"a","b","c","d","e","f","g","h","i","j","k","l","m","n","o","p","q","r","s","t","u","v","w","x","y","z">>

UpperAlpha == <<"A","B","C","D","E","F","G","H","I","J","K","L","M","N","O","P","Q","R","S","T","U","V","W","X","Y","Z">>

\* The position of character c in the sequence s, 0 when s does not hold it.
IndexOf(c, s) ==
    LET at == {i \in 1..Len(s) : s[i] = c}
    IN IF at = {} THEN 0 ELSE CHOOSE i \in at : \A j \in at : i <= j

Contains(s, c) == \E i \in 1..Len(s) : s[i] = c

\* s[from:] of Go, from counted from 0.
Drop(s, from) == SubSeq(s, from + 1, Len(s))

\* fmt.Sprintf("%02x", b) for a byte b.
Hex02(b) == <<LowerHexDigits[(b \div 16) + 1], LowerHexDigits[(b % 16) + 1]>>

\* strings.ToUpper.
ToUpperChar(c) == IF IndexOf(c, LowerAlpha) # 0 THEN UpperAlpha[IndexOf(c, LowerAlpha)] ELSE c

ToUpper(s) == [i \in 1..Len(s) |-> ToUpperChar(s[i])]

\* net.JoinHostPort: a host holding a colon or a percent sign is bracketed.
JoinHostPort(h, p) == IF Contains(h, ":") \/ Contains(h, "%")
                      THEN <<"[">> \o h \o <<"]", ":">> \o p
                      ELSE h \o <<":">> \o p

(***************************************************************************)
(* net.ParseIP, with IP.To4 and IP.To16.  An IP is a sequence of bytes; the *)
(* nil IP is the empty sequence.                                           *)
(***************************************************************************)
IPv4len == 4

IPv6len == 16

\* dtoi and xtoi stop counting at this value and report failure.
big == 16777215

DecDigits == <<"0","1","2","3","4","5","6","7","8","9">>

HexValueDigits == <<"0","1","2","3","4","5","6","7","8","9","a","b","c","d","e","f","A","B","C","D","E","F">>

DecVal(c) == IndexOf(c, DecDigits) - 1

HexVal(c) == LET i == IndexOf(c, HexValueDigits) IN IF i > 16 THEN i - 7 ELSE i - 1

IsDec(c) == IndexOf(c, DecDigits) # 0

IsHex(c) == IndexOf(c, HexValueDigits) # 0

\* dtoi: the decimal number at the start of s, as [n, c, ok] with c the
\* number of characters used.
RECURSIVE dtoiFrom(_, _, _)
dtoiFrom(s, i, n) ==
    IF i < Len(s) /\ IsDec(s[i + 1])
    THEN LET m == n * 10 + DecVal(s[i + 1])
         IN IF m >= big THEN [n |-> big, c |-> i, ok |-> FALSE]
                        ELSE dtoiFrom(s, i + 1, m)
    ELSE IF i = 0 THEN [n |-> 0, c |-> 0, ok |-> FALSE]
                  ELSE [n |-> n, c |-> i, ok |-> TRUE]

dtoi(s) == dtoiFrom(s, 0, 0)

\* xtoi: the hexadecimal number at the start of s.
RECURSIVE xtoiFrom(_, _, _)
xtoiFrom(s, i, n) ==
    IF i < Len(s) /\ IsHex(s[i + 1])
    THEN LET m == n * 16 + HexVal(s[i + 1])
         IN IF m >= big THEN [n |-> 0, c |-> i, ok |-> FALSE]
                        ELSE xtoiFrom(s, i + 1, m)
    ELSE IF i = 0 THEN [n |-> 0, c |-> i, ok |-> FALSE]
                  ELSE [n |-> n, c |-> i, ok |-> TRUE]

xtoi(s) == xtoiFrom(s, 0, 0)

\* net.IPv4(a, b, c, d): the 16-byte form of an IPv4 address.
IPv4(a, b, c, d) == <<0, 0, 0, 0, 0, 0, 0, 0, 0, 0, 255, 255, a, b, c, d>>

\* parseIPv4: four decimal octets separated by dots; nil otherwise.
RECURSIVE parseIPv4From(_, _, _)
parseIPv4From(s, i, p) ==
    IF i = IPv4len
    THEN IF Len(s) # 0 THEN <<>> ELSE IPv4(p[1], p[2], p[3], p[4])
    ELSE IF Len(s) = 0 THEN <<>>
    ELSE IF i > 0 /\ s[1] # "." THEN <<>>
    ELSE LET t == IF i > 0 THEN Drop(s, 1) ELSE s
             d == dtoi(t)
         IN IF ~d.ok \/ d.n > 255 THEN <<>>
            ELSE IF d.c > 1 /\ t[1] = "0" THEN <<>>
            ELSE parseIPv4From(Drop(t, d.c), i + 1, Append(p, d.n))

parseIPv4(s) == parseIPv4From(s, 0, <<>>)

Zeros(n) == [k \in 1..n |-> 0]

\* The end of parseIPv6: the whole string must be used, and an ellipsis is
\* expanded to the missing zero bytes.
parseIPv6Finish(s, i, ellipsis, ip) ==
    IF Len(s) # 0 THEN <<>>
    ELSE IF i < IPv6len
         THEN IF ellipsis < 0 THEN <<>>
              ELSE SubSeq(ip, 1, ellipsis) \o Zeros(IPv6len - i) \o SubSeq(ip, ellipsis + 1, i)
         ELSE IF ellipsis >= 0 THEN <<>> ELSE ip

\* The loop of parseIPv6: hexadecimal groups followed by colons, with at most
\* one ellipsis and an optional trailing IPv4 address.  ip holds the i bytes
\* parsed so far.
RECURSIVE parseIPv6Loop(_, _, _, _)
parseIPv6Loop(s, i, ellipsis, ip) ==
    IF i >= IPv6len THEN parseIPv6Finish(s, i, ellipsis, ip)
    ELSE LET x == xtoi(s)
         IN IF ~x.ok \/ x.n > 65535 THEN <<>>
            ELSE IF x.c < Len(s) /\ s[x.c + 1] = "."
            THEN IF ellipsis < 0 /\ i # IPv6len - IPv4len THEN <<>>
                 ELSE IF i + IPv4len > IPv6len THEN <<>>
                 ELSE LET ip4 == parseIPv4(s)
                      IN IF ip4 = <<>> THEN <<>>
                         ELSE parseIPv6Finish(<<>>, i + IPv4len, ellipsis,
                                              ip \o SubSeq(ip4, 13, 16))
            ELSE LET ip2 == ip \o <<x.n \div 256, x.n % 256>>
                     s2 == Drop(s, x.c)
                 IN IF Len(s2) = 0 THEN parseIPv6Finish(s2, i + 2, ellipsis, ip2)
                    ELSE IF s2[1] # ":" \/ Len(s2) = 1 THEN <<>>
                    ELSE LET s3 == Drop(s2, 1)
                         IN IF s3[1] = ":"
                            THEN IF ellipsis >= 0 THEN <<>>
                                 ELSE IF Len(s3) = 1
                                      THEN parseIPv6Finish(<<>>, i + 2, i + 2, ip2)
                                      ELSE parseIPv6Loop(Drop(s3, 1), i + 2, i + 2, ip2)
                            ELSE parseIPv6Loop(s3, i + 2, ellipsis, ip2)

\* parseIPv6: a leading ellipsis, then the loop.
parseIPv6(s) ==
    IF Len(s) >= 2 /\ s[1] = ":" /\ s[2] = ":"
    THEN IF Len(s) = 2 THEN Zeros(IPv6len)
         ELSE parseIPv6Loop(Drop(s, 2), 0, 0, <<>>)
    ELSE parseIPv6Loop(s, 0, -1, <<>>)

\* net.ParseIP: the first dot or colon of s decides the syntax.
RECURSIVE ParseIPFrom(_, _)
ParseIPFrom(s, i) ==
    IF i > Len(s) THEN <<>>
    ELSE IF s[i] = "." THEN parseIPv4(s)
    ELSE IF s[i] = ":" THEN parseIPv6(s)
    ELSE ParseIPFrom(s, i + 1)

ParseIP(s) == ParseIPFrom(s, 1)

\* IP.To4: the 4-byte form of an IPv4 or IPv4-mapped address, nil otherwise.
To4(ip) ==
    IF Len(ip) = IPv4len THEN ip
    ELSE IF /\ Len(ip) = IPv6len
            /\ \A k \in 1..10 : ip[k] = 0
            /\ ip[11] = 255
            /\ ip[12] = 255
         THEN SubSeq(ip, 13, 16)
         ELSE <<>>

\* IP.To16: the 16-byte form, nil for an IP of any other length.
To16(ip) ==
    IF Len(ip) = IPv4len THEN IPv4(ip[1], ip[2], ip[3], ip[4])
    ELSE IF Len(ip) = IPv6len THEN ip
    ELSE <<>>

(***************************************************************************)
(* The address encoder.                                                    *)
(***************************************************************************)
\* hostToHex: the IPv4 octets in reverse order as lowercase hex; an error
\* for an IPv6 address and for a string that is no IP address.
hostToHex(h) ==
    LET ip == ParseIP(h)
        ip4 == To4(ip)
        ip6 == To16(ip)
    IN IF ip4 # <<>> /\ Len(ip4) = IPv4len
       THEN [hex |-> Hex02(ip4[4]) \o Hex02(ip4[3]) \o Hex02(ip4[2]) \o Hex02(ip4[1]),
             err |-> "nil"]
       ELSE IF ip6 # <<>> /\ Len(ip6) = IPv6len
            THEN [hex |-> <<>>, err |-> "ErrIPv6NotImplemented"]
            ELSE [hex |-> <<>>, err |-> "ErrInvalidIPAddress"]

\* binary.LittleEndian.PutUint16 into a 2-byte buffer.
PutUint16LE(v) == <<v % 256, (v \div 256) % 256>>

\* A variant of u16PortToHex that prints the buffer in memory order.
u16PortToHex_MemoryOrder(p) ==
    LET portBuf == PutUint16LE(p)
    IN Hex02(portBuf[1]) \o Hex02(portBuf[2])

\* u16PortToHex: byte 1 then byte 0 of the little-endian buffer.
u16PortToHex(p) ==
    LET portBuf == PutUint16LE(p)
    IN Hex02(portBuf[2]) \o Hex02(portBuf[1])

\* The key checkMPTCP hands to the lookup.
hexHostPortOf(hexHost, p) == ToUpper(JoinHostPort(hexHost, u16PortToHex(p)))

(***************************************************************************)
(* The table scanner: bufio.ScanLines, strings.Fields, the row parser.     *)
(***************************************************************************)
Spaces(n) == [k \in 1..n |-> " "]

mptcpTableColumns == 10

mptcpTableHeader ==
    Spaces(2) \o <<"s","l">> \o Spaces(2) \o <<"l","o","c","_","t","o","k">>
    \o Spaces(2) \o <<"r","e","m","_","t","o","k">> \o Spaces(2) \o <<"v","6">>
    \o Spaces(1) \o <<"l","o","c","a","l","_","a","d","d","r","e","s","s">>
    \o Spaces(25) \o <<"r","e","m","o","t","e","_","a","d","d","r","e","s","s">>
    \o Spaces(24) \o <<"s","t">> \o Spaces(1) \o <<"n","s">>
    \o Spaces(1) \o <<"t","x","_","q","u","e","u","e">>
    \o Spaces(1) \o <<"r","x","_","q","u","e","u","e">>
    \o Spaces(1) \o <<"i","n","o","d","e">>

\* dropCR of bufio: a line loses one trailing carriage return.
dropCR(d) == IF Len(d) > 0 /\ d[Len(d)] = "\r" THEN SubSeq(d, 1, Len(d) - 1) ELSE d

\* bufio.ScanLines on the data left in the stream, once all of it is
\* buffered: the next line without its end-of-line marker, and the number of
\* bytes used.  ok is FALSE when no data is left.
ScanLines(d) ==
    IF Len(d) = 0 THEN [ok |-> FALSE, advance |-> 0, token |-> <<>>]
    ELSE LET i == IndexOf("\n", d)
         IN IF i > 0
            THEN [ok |-> TRUE, advance |-> i, token |-> dropCR(SubSeq(d, 1, i - 1))]
            ELSE [ok |-> TRUE, advance |-> Len(d), token |-> dropCR(d)]

\* unicode.IsSpace on the characters a table can hold.
IsSpace(c) == c \in {" ", "\t", "\n", "\r", "\f"}

\* The k-th smallest member of a set of numbers.
Nth(S, k) == CHOOSE x \in S : Cardinality({y \in S : y <= x}) = k

\* strings.Fields: the maximal runs of non-space characters, in order.
Fields(s) ==
    LET starts == {i \in 1..Len(s) : ~IsSpace(s[i]) /\ (i = 1 \/ IsSpace(s[i - 1]))}
        ends == {i \in 1..Len(s) : ~IsSpace(s[i]) /\ (i = Len(s) \/ IsSpace(s[i + 1]))}
    IN [k \in 1..Cardinality(starts) |-> SubSeq(s, Nth(starts, k), Nth(ends, k))]

NoEntry == [IsIPv6 |-> FALSE, RemoteAddr |-> <<>>]

\* newMPTCPTableEntry: an entry from exactly ten fields, the IPv6 marker from
\* field 3 and the remote address from field 5 (counted from 0).
newMPTCPTableEntry(fields) ==
    IF Len(fields) # mptcpTableColumns
    THEN [m |-> NoEntry, err |-> "errInvalidMPTCPEntry"]
    ELSE [m |-> [IsIPv6 |-> (fields[4] = <<"1">>), RemoteAddr |-> fields[6]],
          err |-> "nil"]

\* A variant of RowStep that compares the remote address without regard to
\* letter case.
RowStep_FoldCase(d, hexHostPort) ==
    LET t == ScanLines(d)
        e == newMPTCPTableEntry(Fields(t.token))
    IN IF ~t.ok
       THEN [stop |-> TRUE, found |-> FALSE, err |-> "nil", rest |-> d, parsed |-> FALSE]
       ELSE IF e.err # "nil"
       THEN [stop |-> TRUE, found |-> FALSE, err |-> e.err,
             rest |-> Drop(d, t.advance), parsed |-> TRUE]
       ELSE IF ToUpper(e.m.RemoteAddr) = ToUpper(hexHostPort)
       THEN [stop |-> TRUE, found |-> TRUE, err |-> "nil",
             rest |-> Drop(d, t.advance), parsed |-> TRUE]
       ELSE [stop |-> FALSE, found |-> FALSE, err |-> "nil",
             rest |-> Drop(d, t.advance), parsed |-> TRUE]

\* A variant of RowStep that skips a malformed row instead of returning.
RowStep_SkipMalformed(d, hexHostPort) ==
    LET t == ScanLines(d)
        e == newMPTCPTableEntry(Fields(t.token))
    IN IF ~t.ok
       THEN [stop |-> TRUE, found |-> FALSE, err |-> "nil", rest |-> d, parsed |-> FALSE]
       ELSE IF e.err = "nil" /\ e.m.RemoteAddr = hexHostPort
       THEN [stop |-> TRUE, found |-> TRUE, err |-> "nil",
             rest |-> Drop(d, t.advance), parsed |-> TRUE]
       ELSE [stop |-> FALSE, found |-> FALSE, err |-> "nil",
             rest |-> Drop(d, t.advance), parsed |-> TRUE]

\* A variant of RowStep that returns (false, nil) from inside the loop, at
\* the first row that does not match.
RowStep_ReturnInLoop(d, hexHostPort) ==
    LET t == ScanLines(d)
        e == newMPTCPTableEntry(Fields(t.token))
    IN IF ~t.ok
       THEN [stop |-> TRUE, found |-> FALSE, err |-> "nil", rest |-> d, parsed |-> FALSE]
       ELSE IF e.err # "nil"
       THEN [stop |-> TRUE, found |-> FALSE, err |-> e.err,
             rest |-> Drop(d, t.advance), parsed |-> TRUE]
       ELSE [stop |-> TRUE, found |-> (e.m.RemoteAddr = hexHostPort), err |-> "nil",
             rest |-> Drop(d, t.advance), parsed |-> TRUE]

\* One iteration of the row loop of mptcpTableReaderLinux on the data left:
\* stop is TRUE when the loop returns, with the result it returns.
RowStep(d, hexHostPort) ==
    LET t == ScanLines(d)
        e == newMPTCPTableEntry(Fields(t.token))
    IN IF ~t.ok
       THEN [stop |-> TRUE, found |-> FALSE, err |-> "nil", rest |-> d, parsed |-> FALSE]
       ELSE IF e.err # "nil"
       THEN [stop |-> TRUE, found |-> FALSE, err |-> e.err,
             rest |-> Drop(d, t.advance), parsed |-> TRUE]
       ELSE IF e.m.RemoteAddr = hexHostPort
       THEN [stop |-> TRUE, found |-> TRUE, err |-> "nil",
             rest |-> Drop(d, t.advance), parsed |-> TRUE]
       ELSE [stop |-> FALSE, found |-> FALSE, err |-> "nil",
             rest |-> Drop(d, t.advance), parsed |-> TRUE]

\* A variant of HeaderStep that compares the column titles, not the bytes.
HeaderStep_TitlesOnly(d) ==
    LET t == ScanLines(d)
    IN IF ~t.ok
       THEN [stop |-> TRUE, err |-> "ErrUnexpectedEOF", rest |-> d]
       ELSE IF Fields(t.token) # Fields(mptcpTableHeader)
       THEN [stop |-> TRUE, err |-> "errInvalidMPTCPTable", rest |-> Drop(d, t.advance)]
       ELSE [stop |-> FALSE, err |-> "nil", rest |-> Drop(d, t.advance)]

\* The header check of mptcpTableReaderLinux on the data of the stream.
HeaderStep(d) ==
    LET t == ScanLines(d)
    IN IF ~t.ok
       THEN [stop |-> TRUE, err |-> "ErrUnexpectedEOF", rest |-> d]
       ELSE IF t.token # mptcpTableHeader
       THEN [stop |-> TRUE, err |-> "errInvalidMPTCPTable", rest |-> Drop(d, t.advance)]
       ELSE [stop |-> FALSE, err |-> "nil", rest |-> Drop(d, t.advance)]

\* mptcpTableReaderLinux as a function of the stream's data and the key.
RECURSIVE RowLoop(_, _)
RowLoop(d, hexHostPort) ==
    LET r == RowStep(d, hexHostPort)
    IN IF r.stop THEN [found |-> r.found, err |-> r.err]
       ELSE RowLoop(r.rest, hexHostPort)

mptcpTableReaderLinux(d, hexHostPort) ==
    LET h == HeaderStep(d)
    IN IF h.stop THEN [found |-> FALSE, err |-> h.err]
       ELSE RowLoop(h.rest, hexHostPort)

(***************************************************************************)
(* The inputs: hosts, ports, the state of /proc/net/mptcp.                 *)
(***************************************************************************)
\* The most rows a table holds after its first line.
MaxRows == 2

\* The decimal spelling of a byte, and a dotted IPv4 host string.
RECURSIVE Dec(_)
Dec(n) == IF n < 10 THEN <<DecDigits[n + 1]>>
          ELSE Dec(n \div 10) \o <<DecDigits[(n % 10) + 1]>>

Dotted(o) == Dec(o[1]) \o <<".">> \o Dec(o[2]) \o <<".">> \o Dec(o[3]) \o <<".">> \o Dec(o[4])

Octs == {0, 10, 127, 255}

V4Octets == (Octs \X Octs \X Octs \X Octs) \cup {<<171, 205, 239, 1>>, <<192, 168, 1, 20>>, <<127, 0, 0, 1>>}

Ports == {0, 80, 443, 43981, 65535}

\* Hosts written in IPv6 syntax: "::1", "::ffff:127.0.0.1", "::ffff:7f00:1",
\* "2001:db8::1".
V6Hosts == { <<":",":","1">>,
             <<":",":","f","f","f","f",":","1","2","7",".","0",".","0",".","1">>,
             <<":",":","f","f","f","f",":","7","f","0","0",":","1">>,
             <<"2","0","0","1",":","d","b","8",":",":","1">> }

\* Strings that are no IP address: "not-an-ip", "256.0.0.1", "1.2.3", "1::2::3", "".
BadHosts == { <<"n","o","t","-","a","n","-","i","p">>,
              <<"2","5","6",".","0",".","0",".","1">>,
              <<"1",".","2",".","3">>,
              <<"1",":",":","2",":",":","3">>,
              <<>> }

Localhost == <<127, 0, 0, 1>>

\* Remote addresses of table rows: "0100007F:0050" (127.0.0.1:80), the same in
\* lower case, and "0100007F:0051" (127.0.0.1:81).
AddrUpper == <<"0","1","0","0","0","0","7","F",":","0","0","5","0">>

AddrLower == <<"0","1","0","0","0","0","7","f",":","0","0","5","0">>

AddrOther == <<"0","1","0","0","0","0","7","F",":","0","0","5","1">>

\* The ten fields of a row with the given IPv6 marker and remote address.
RowFields(v6, remote) ==
    << <<"0",":">>, <<"8","C","5","F","5","F","6","B">>, <<"4","E","B","4","D","7","A","1">>,
       v6, <<"0","1","0","0","0","0","7","F",":","1","F","9","0">>, remote,
       <<"0","1">>, <<"0","2">>,
       <<"0","0","0","0","0","0","0","0",":","0","0","0","0","0","0","0","0">>,
       <<"1","0","0","0">> >>

\* A row of the file: leading white space, then fields separated by sep.
RowChoices ==
    { [lead |-> Spaces(3), sep |-> Spaces(1), fields |-> RowFields(<<"0">>, AddrUpper)],
      [lead |-> <<>>, sep |-> <<"\t", " ">>, fields |-> RowFields(<<"1">>, AddrOther)],
      [lead |-> Spaces(3), sep |-> Spaces(1), fields |-> RowFields(<<"0">>, AddrLower)],
      [lead |-> Spaces(3), sep |-> Spaces(1),
       fields |-> SubSeq(RowFields(<<"0">>, AddrUpper), 1, 9)],
      [lead |-> Spaces(3), sep |-> Spaces(1),
       fields |-> Append(RowFields(<<"0">>, AddrUpper), <<"x">>)],
      [lead |-> <<>>, sep |-> Spaces(1), fields |-> <<>>],
      [lead |-> Spaces(2), sep |-> Spaces(1), fields |-> <<>>] }

RECURSIVE JoinFields(_, _)
JoinFields(fs, sep) ==
    IF Len(fs) = 0 THEN <<>>
    ELSE IF Len(fs) = 1 THEN fs[1]
    ELSE fs[1] \o sep \o JoinFields(Tail(fs), sep)

RowText(r) == r.lead \o JoinFields(r.fields, r.sep)

\* The first line of the file: the header, the header without its first
\* space, an empty line, or a table row.
FirstChoices == {"header", "respaced", "empty", "row"}

FirstText(f) ==
    CASE f = "header" -> mptcpTableHeader
      [] f = "respaced" -> Tail(mptcpTableHeader)
      [] f = "empty" -> <<>>
      [] f = "row" -> RowText([lead |-> Spaces(3), sep |-> Spaces(1),
                               fields |-> RowFields(<<"0">>, AddrUpper)])

EolChoices == { <<"\n">>, <<"\r", "\n">> }

RECURSIVE JoinLines(_, _, _)
JoinLines(ls, eol, term) ==
    IF Len(ls) = 0 THEN <<>>
    ELSE IF Len(ls) = 1 THEN ls[1] \o (IF term THEN eol ELSE <<>>)
    ELSE ls[1] \o eol \o JoinLines(Tail(ls), eol, term)

\* The lines of a file: none at all, or a first line and rows.
FileLines(f) ==
    IF f.first = "none" THEN <<>>
    ELSE <<FirstText(f.first)>> \o [k \in 1..Len(f.rows) |-> RowText(f.rows[k])]

\* The bytes the file delivers before end of file or a read failure.
FileData(f) == JoinLines(FileLines(f), f.eol, f.term)

RowSeqs(n) == UNION { [1..k -> RowChoices] : k \in 0..n }

\* A file whose text is well defined: a last line without end-of-line marker
\* is not empty.
Files ==
    { f \in [first : FirstChoices \cup {"none"}, rows : RowSeqs(MaxRows),
             eol : EolChoices, term : BOOLEAN, failed : BOOLEAN] :
        /\ f.first = "none" => f.rows = <<>> /\ f.term
        /\ f.first \notin {"header", "none"} => Len(f.rows) <= 1
        /\ ~f.term => FileLines(f)[Len(FileLines(f))] # <<>> }

StatErrors == {"ENOENT", "EACCES", "EIO"}

HeaderOnly == [first |-> "header", rows |-> <<>>, eol |-> <<"\n">>, term |-> TRUE,
               failed |-> FALSE]

\* The hosts of the dotted IPv4 form, each with the octets it spells.
V4Hosts == { [o |-> o, text |-> Dotted(o)] : o \in V4Octets }

(***************************************************************************)
(* The state.                                                              *)
(***************************************************************************)
VARIABLES
    goos,         \* the build: "linux" or "other"
    call,         \* the query: [op, host, port]
    fsys,         \* what os.Stat and os.Open of procMPTCP answer: [stat, open]
    file,         \* the content of procMPTCP and whether reading it fails
    pc,           \* the position of the call
    hexHostPort,  \* the key checkMPTCP computed
    rest,         \* the data the scanner has not consumed
    scanErr,      \* scanner.Err(): the read failure the scanner has met
    isOpen,       \* the table file is open
    opens,        \* calls of os.Open that succeeded
    closes,       \* calls of Close
    stats,        \* calls of os.Stat
    rowsRead,     \* rows handed to newMPTCPTableEntry
    result        \* what the call returns: [found, err]

vars == <<goos, call, fsys, file, pc, hexHostPort, rest, scanErr, isOpen, opens,
          closes, stats, rowsRead, result>>

NoResult == [found |-> FALSE, err |-> "none"]

Start ==
    /\ pc = "call"
    /\ hexHostPort = <<>>
    /\ rest = <<>>
    /\ scanErr = "nil"
    /\ isOpen = FALSE
    /\ opens = 0
    /\ closes = 0
    /\ stats = 0
    /\ rowsRead = 0
    /\ result = NoResult

\* checkMPTCP on Linux for many hosts and ports, against a table without rows.
InitEncode ==
    /\ goos = "linux"
    /\ call \in [op : {"checkMPTCP"},
                 host : {h.text : h \in V4Hosts} \cup V6Hosts \cup BadHosts,
                 port : Ports]
    /\ fsys = [stat |-> "ok", open |-> "ok"]
    /\ file = HeaderOnly

\* checkMPTCP on Linux for 127.0.0.1 and ports 80 and 81, against many tables.
InitScan ==
    /\ goos = "linux"
    /\ call \in [op : {"checkMPTCP"}, host : {Dotted(Localhost)}, port : {80, 81}]
    /\ fsys = [stat |-> "ok", open |-> "ok"]
    /\ file \in Files

\* checkMPTCP on Linux when the table file cannot be opened.
InitOpenFail ==
    /\ goos = "linux"
    /\ call \in [op : {"checkMPTCP"}, host : {Dotted(Localhost)} \cup BadHosts, port : {80}]
    /\ fsys \in [stat : StatErrors, open : StatErrors]
    /\ file = HeaderOnly

\* mptcpEnabled on Linux, for every answer of os.Stat and several contents.
InitProbe ==
    /\ goos = "linux"
    /\ call = [op |-> "mptcpEnabled", host |-> <<>>, port |-> 0]
    /\ fsys \in [stat : {"ok"} \cup StatErrors, open : {"ok"} \cup StatErrors]
    /\ file \in {f \in Files : Len(f.rows) = 0 /\ f.term}

\* Both queries on a platform other than Linux.
InitOther ==
    /\ goos = "other"
    /\ call \in [op : {"checkMPTCP", "mptcpEnabled"},
                 host : {Dotted(Localhost)} \cup V6Hosts \cup BadHosts,
                 port : {80, 443}]
    /\ fsys \in [stat : {"ok"} \cup StatErrors, open : {"ok"} \cup StatErrors]
    /\ file = HeaderOnly

Init == Start /\ (InitEncode \/ InitScan \/ InitOpenFail \/ InitProbe \/ InitOther)

(***************************************************************************)
(* The operations.                                                         *)
(***************************************************************************)
\* checkMPTCP of the Linux build, up to the call of lookupMPTCPLinux: an
\* encoding error is returned, otherwise the key is built.
CheckMPTCP ==
    /\ goos = "linux" /\ call.op = "checkMPTCP" /\ pc = "call"
    /\ LET h == hostToHex(call.host)
       IN IF h.err # "nil"
          THEN /\ result' = [found |-> FALSE, err |-> h.err]
               /\ pc' = "done"
               /\ UNCHANGED hexHostPort
          ELSE /\ hexHostPort' = hexHostPortOf(h.hex, call.port)
               /\ pc' = "lookup"
               /\ UNCHANGED result
    /\ UNCHANGED <<goos, call, fsys, file, rest, scanErr, isOpen, opens, closes, stats,
                   rowsRead>>

\* lookupMPTCPLinux up to the call of the reader: os.Open, whose failure is
\* returned.
LookupOpen ==
    /\ pc = "lookup"
    /\ IF fsys.open # "ok"
       THEN /\ result' = [found |-> FALSE, err |-> fsys.open]
            /\ pc' = "done"
            /\ UNCHANGED <<isOpen, opens, rest>>
       ELSE /\ isOpen' = TRUE
            /\ opens' = opens + 1
            /\ rest' = FileData(file)
            /\ pc' = "header"
            /\ UNCHANGED result
    /\ UNCHANGED <<goos, call, fsys, file, hexHostPort, scanErr, closes, stats, rowsRead>>

\* What scanner.Err() holds once the scanner has found no further line: the
\* failure of the read that ended the data (a line longer than the scanner's
\* token limit ends the data in the same way, before that line).
ErrAtEnd(t) == IF ~t.ok /\ file.failed THEN "EIO" ELSE scanErr

\* A variant of ReadHeader whose error returns leave the file open: Close is
\* called at the end of the function, not deferred.
ReadHeader_CloseNotDeferred ==
    /\ pc = "header"
    /\ LET h == HeaderStep(rest)
       IN /\ rest' = h.rest
          /\ scanErr' = ErrAtEnd(ScanLines(rest))
          /\ IF h.stop
             THEN /\ result' = [found |-> FALSE, err |-> h.err]
                  /\ pc' = "done"
             ELSE /\ pc' = "rows"
                  /\ UNCHANGED result
    /\ UNCHANGED <<goos, call, fsys, file, hexHostPort, isOpen, opens, closes, stats,
                   rowsRead>>

\* mptcpTableReaderLinux, the first line: no line at all, a line that is not
\* the header, or the header.
ReadHeader ==
    /\ pc = "header"
    /\ LET h == HeaderStep(rest)
       IN /\ rest' = h.rest
          /\ scanErr' = ErrAtEnd(ScanLines(rest))
          /\ IF h.stop
             THEN /\ result' = [found |-> FALSE, err |-> h.err]
                  /\ pc' = "close"
             ELSE /\ pc' = "rows"
                  /\ UNCHANGED result
    /\ UNCHANGED <<goos, call, fsys, file, hexHostPort, isOpen, opens, closes, stats,
                   rowsRead>>

\* mptcpTableReaderLinux, one iteration of the row loop: the end of the
\* stream, a malformed row, a matching row, or a row that does not match.
ReadRow ==
    /\ pc = "rows"
    /\ LET r == RowStep(rest, hexHostPort)
       IN /\ rest' = r.rest
          /\ scanErr' = ErrAtEnd(ScanLines(rest))
          /\ rowsRead' = IF r.parsed THEN rowsRead + 1 ELSE rowsRead
          /\ IF r.stop
             THEN /\ result' = [found |-> r.found, err |-> r.err]
                  /\ pc' = "close"
             ELSE UNCHANGED <<result, pc>>
    /\ UNCHANGED <<goos, call, fsys, file, hexHostPort, isOpen, opens, closes, stats>>

\* The deferred mptcpFile.Close() of lookupMPTCPLinux, then the return.
Close ==
    /\ pc = "close"
    /\ isOpen' = FALSE
    /\ closes' = closes + 1
    /\ pc' = "done"
    /\ UNCHANGED <<goos, call, fsys, file, hexHostPort, rest, scanErr, opens, stats,
                   rowsRead, result>>

\* A variant of mptcpEnabled that returns (false, nil) for every failure of
\* os.Stat.
MptcpEnabled_AnyErrorIsAbsent ==
    /\ goos = "linux" /\ call.op = "mptcpEnabled" /\ pc = "call"
    /\ stats' = stats + 1
    /\ result' = IF fsys.stat = "ok" THEN [found |-> TRUE, err |-> "nil"]
                 ELSE [found |-> FALSE, err |-> "nil"]
    /\ pc' = "done"
    /\ UNCHANGED <<goos, call, fsys, file, hexHostPort, rest, scanErr, isOpen, opens,
                   closes, rowsRead>>

\* mptcpEnabled of the Linux build.
MptcpEnabled ==
    /\ goos = "linux" /\ call.op = "mptcpEnabled" /\ pc = "call"
    /\ stats' = stats + 1
    /\ result' = IF fsys.stat = "ok" THEN [found |-> TRUE, err |-> "nil"]
                 ELSE IF fsys.stat = "ENOENT" THEN [found |-> FALSE, err |-> "nil"]
                 ELSE [found |-> FALSE, err |-> fsys.stat]
    /\ pc' = "done"
    /\ UNCHANGED <<goos, call, fsys, file, hexHostPort, rest, scanErr, isOpen, opens,
                   closes, rowsRead>>

\* checkMPTCP of the build for other platforms.
CheckMPTCPOther ==
    /\ goos = "other" /\ call.op = "checkMPTCP" /\ pc = "call"
    /\ result' = [found |-> FALSE, err |-> "ErrNotImplemented"]
    /\ pc' = "done"
    /\ UNCHANGED <<goos, call, fsys, file, hexHostPort, rest, scanErr, isOpen, opens,
                   closes, stats, rowsRead>>

\* A variant of the other platforms' mptcpEnabled that returns
\* ErrNotImplemented, as their checkMPTCP does.
MptcpEnabledOther_NotImplemented ==
    /\ goos = "other" /\ call.op = "mptcpEnabled" /\ pc = "call"
    /\ result' = [found |-> FALSE, err |-> "ErrNotImplemented"]
    /\ pc' = "done"
    /\ UNCHANGED <<goos, call, fsys, file, hexHostPort, rest, scanErr, isOpen, opens,
                   closes, stats, rowsRead>>

\* mptcpEnabled of the build for other platforms.
MptcpEnabledOther ==
    /\ goos = "other" /\ call.op = "mptcpEnabled" /\ pc = "call"
    /\ result' = [found |-> FALSE, err |-> "nil"]
    /\ pc' = "done"
    /\ UNCHANGED <<goos, call, fsys, file, hexHostPort, rest, scanErr, isOpen, opens,
                   closes, stats, rowsRead>>

Next ==
    \/ CheckMPTCP
    \/ LookupOpen
    \/ ReadHeader
    \/ ReadRow
    \/ Close
    \/ MptcpEnabled
    \/ CheckMPTCPOther
    \/ MptcpEnabledOther

Spec == Init /\ [][Next]_vars

(***************************************************************************)
(* Properties.                                                             *)
(***************************************************************************)
LinuxCheck == goos = "linux" /\ call.op = "checkMPTCP"

\* The scan of the opened table has returned.
Scanned == LinuxCheck /\ opens = 1 /\ pc \in {"close", "done"}

UpperHexDigits == <<"0","1","2","3","4","5","6","7","8","9","A","B","C","D","E","F">>

HEX2(b) == <<UpperHexDigits[(b \div 16) + 1], UpperHexDigits[(b % 16) + 1]>>

\* The key of octets o = (a, b, c, d) and port p: d, c, b, a, a colon, then
\* the high-order and the low-order byte of p, in upper-case hex.
ExpectedKey(o, p) ==
    HEX2(o[4]) \o HEX2(o[3]) \o HEX2(o[2]) \o HEX2(o[1]) \o <<":">>
    \o HEX2(p \div 256) \o HEX2(p % 256)

\* C1: for every IPv4 host a.b.c.d and every port p, the key checkMPTCP hands
\* to the lookup is the 13-character string HEX2(d)HEX2(c)HEX2(b)HEX2(a),
\* a colon, HEX2(high byte of p)HEX2(low byte of p), in upper case; the key of
\* 127.0.0.1 and port 80 is "0100007F:0050".
C1_KeyEncoding ==
    (LinuxCheck /\ pc # "call") =>
        /\ \A h \in V4Hosts :
              call.host = h.text =>
                  /\ result.err \notin {"ErrInvalidIPAddress", "ErrIPv6NotImplemented"}
                  /\ hexHostPort = ExpectedKey(h.o, call.port)
                  /\ Len(hexHostPort) = 13
        /\ (call.host = Dotted(Localhost) /\ call.port = 80) => hexHostPort = AddrUpper

\* C1's case: 171.205.239.1 port 43981 (0xABCD) has the key "01EFCDAB:ABCD".
C1_Witness ==
    /\ LinuxCheck /\ pc = "lookup"
    /\ call.host = Dotted(<<171, 205, 239, 1>>) /\ call.port = 43981
    /\ hexHostPort = <<"0","1","E","F","C","D","A","B",":","A","B","C","D">>

WellFormed(r) == Len(r.fields) = mptcpTableColumns

\* Row r of the file carries the key as its remote address (field 5 from 0).
Matches(r) == WellFormed(r) /\ r.fields[6] = hexHostPort

\* C2: for a table with the exact header whose rows all have ten fields, the
\* scan returns (true, nil) if and only if some row's field 5 equals the key
\* character for character, and (false, nil) otherwise.
C2_FoundIffSomeRowMatches ==
    (Scanned /\ file.first = "header"
       /\ \A k \in 1..Len(file.rows) : WellFormed(file.rows[k])) =>
        result = [found |-> \E k \in 1..Len(file.rows) : file.rows[k].fields[6] = hexHostPort,
                  err |-> "nil"]

\* C2's case: the first row differs from the key in letter case only, the
\* second row equals it.
C2_Witness ==
    /\ Scanned /\ pc = "done" /\ file.first = "header" /\ Len(file.rows) = 2
    /\ file.rows[1].fields = RowFields(<<"0">>, AddrLower)
    /\ file.rows[2].fields = RowFields(<<"0">>, AddrUpper)
    /\ hexHostPort = AddrUpper
    /\ result = [found |-> TRUE, err |-> "nil"]

\* C3: hostToHex fails with the IPv6-not-implemented error for every host
\* written in IPv6 syntax, IPv4-mapped forms included, and never encodes it
\* as IPv4.
C3_IPv6AlwaysRejected ==
    (LinuxCheck /\ pc # "call" /\ call.host \in V6Hosts) =>
        /\ pc = "done"
        /\ result = [found |-> FALSE, err |-> "ErrIPv6NotImplemented"]
        /\ hexHostPort = <<>>

\* C4: the first line is validated before any row: a stream without lines
\* fails with ErrUnexpectedEOF, a first line other than the header fails with
\* errInvalidMPTCPTable; found is false and no row is parsed, whatever follows.
C4_HeaderFirst ==
    /\ (Scanned /\ file.first = "none") =>
           result = [found |-> FALSE, err |-> "ErrUnexpectedEOF"] /\ rowsRead = 0
    /\ (Scanned /\ file.first \in {"respaced", "empty", "row"}) =>
           result = [found |-> FALSE, err |-> "errInvalidMPTCPTable"] /\ rowsRead = 0
    /\ (pc = "rows" \/ rowsRead > 0) => file.first = "header"

\* C4's case: a header that differs in white space, followed by a row that
\* matches the key.
C4_Witness ==
    /\ Scanned /\ pc = "done" /\ file.first = "respaced"
    /\ Len(file.rows) = 1 /\ Matches(file.rows[1])
    /\ result = [found |-> FALSE, err |-> "errInvalidMPTCPTable"]

\* C5: a read failure met during the scan is returned as the error of the
\* scan; the scan reports neither (false, nil) nor ErrUnexpectedEOF for it.
C5_ReadFailureReturned ==
    (Scanned /\ scanErr # "nil") => result = [found |-> FALSE, err |-> scanErr]

\* C6: on Linux mptcpEnabled returns (true, nil) when os.Stat succeeds,
\* whatever the file holds, (false, nil) when the file does not exist, and
\* (false, err) with the error of os.Stat otherwise; never true with an error.
C6_Probe ==
    (goos = "linux" /\ call.op = "mptcpEnabled" /\ pc = "done") =>
        /\ fsys.stat = "ok" => result = [found |-> TRUE, err |-> "nil"]
        /\ fsys.stat = "ENOENT" => result = [found |-> FALSE, err |-> "nil"]
        /\ fsys.stat \in {"EACCES", "EIO"} => result = [found |-> FALSE, err |-> fsys.stat]
        /\ ~(result.found /\ result.err # "nil")
        /\ result.err = "nil" => fsys.stat \in {"ok", "ENOENT"}

\* C6's case: os.Stat fails for lack of permission.
C6_Witness ==
    /\ goos = "linux" /\ call.op = "mptcpEnabled" /\ pc = "done"
    /\ fsys.stat = "EACCES"
    /\ result = [found |-> FALSE, err |-> "EACCES"]

\* C7: on other platforms both checkMPTCP and mptcpEnabled return the
\* not-implemented error for every input, without any probe.
C7_BothNotImplemented ==
    (goos = "other" /\ pc = "done") =>
        /\ result = [found |-> FALSE, err |-> "ErrNotImplemented"]
        /\ stats = 0 /\ opens = 0

\* C7 as amended: on other platforms checkMPTCP returns
\* (false, ErrNotImplemented) and mptcpEnabled returns (false, nil), for every
\* input and without any probe of the file system.
C7_OtherPlatforms ==
    (goos = "other" /\ pc = "done") =>
        /\ call.op = "checkMPTCP" => result = [found |-> FALSE, err |-> "ErrNotImplemented"]
        /\ call.op = "mptcpEnabled" => result = [found |-> FALSE, err |-> "nil"]
        /\ stats = 0 /\ opens = 0 /\ hexHostPort = <<>>

\* C7's case: mptcpEnabled on another platform, where the file exists.
C7_Witness ==
    /\ goos = "other" /\ call.op = "mptcpEnabled" /\ pc = "done"
    /\ fsys.stat = "ok"
    /\ result = [found |-> FALSE, err |-> "nil"]

\* Row r decides the scan: it is malformed or it matches the key.
Decides(r) == ~WellFormed(r) \/ Matches(r)

\* The index of the first row that decides the scan, 0 when there is none.
FirstDeciding(rows) ==
    IF \E k \in 1..Len(rows) : Decides(rows[k])
    THEN CHOOSE k \in 1..Len(rows) :
             Decides(rows[k]) /\ \A j \in 1..(k - 1) : ~Decides(rows[j])
    ELSE 0

\* C8: after a valid header the first row that is malformed or matches the
\* key decides the scan: (false, errInvalidMPTCPEntry) for a malformed row,
\* (true, nil) for a match, and no later row is read.
C8_FirstDecidingRow ==
    (Scanned /\ file.first = "header") =>
        LET k == FirstDeciding(file.rows)
        IN IF k = 0
           THEN result = [found |-> FALSE, err |-> "nil"] /\ rowsRead = Len(file.rows)
           ELSE /\ rowsRead = k
                /\ result = IF WellFormed(file.rows[k])
                            THEN [found |-> TRUE, err |-> "nil"]
                            ELSE [found |-> FALSE, err |-> "errInvalidMPTCPEntry"]

\* C8's case: a row of nine fields, then a row that matches the key.
C8_Witness ==
    /\ Scanned /\ pc = "done" /\ file.first = "header" /\ Len(file.rows) = 2
    /\ Len(file.rows[1].fields) = 9
    /\ Matches(file.rows[2])
    /\ rowsRead = 1
    /\ result = [found |-> FALSE, err |-> "errInvalidMPTCPEntry"]

Perms(n) == { p \in [1..n -> 1..n] : \A i, j \in 1..n : p[i] = p[j] => i = j }

\* The file f with its rows in the order p.
Permuted(f, p) == [f EXCEPT !.rows = [k \in 1..Len(f.rows) |-> f.rows[p[k]]]]

\* C9: the rows of a table, well-formed or not, scanned in any order give the
\* same result.
C9_AnyOrder ==
    (Scanned /\ pc = "done" /\ file.first = "header" /\ file.term) =>
        \A p \in Perms(Len(file.rows)) :
            mptcpTableReaderLinux(FileData(Permuted(file, p)), hexHostPort) = result

\* C9 as amended: rows that all have ten fields, scanned in any order, give
\* the same result.
C9_AnyOrderWellFormed ==
    (Scanned /\ pc = "done" /\ file.first = "header"
       /\ \A k \in 1..Len(file.rows) : WellFormed(file.rows[k])) =>
        \A p \in Perms(Len(file.rows)) :
            mptcpTableReaderLinux(FileData(Permuted(file, p)), hexHostPort) = result

\* C9's case: two different well-formed rows, the second of which matches.
C9_Witness ==
    /\ Scanned /\ pc = "done" /\ file.first = "header" /\ Len(file.rows) = 2
    /\ WellFormed(file.rows[1]) /\ ~Matches(file.rows[1])
    /\ Matches(file.rows[2])
    /\ result = [found |-> TRUE, err |-> "nil"]

\* Hosts in IPv6 syntax that are not IPv4-mapped: "::1" and "2001:db8::1".
PlainV6Hosts == { <<":",":","1">>, <<"2","0","0","1",":","d","b","8",":",":","1">> }

\* C10: checkMPTCP opens the table file at most once, and not at all when the
\* encoding fails or the open fails, whose error it returns with found false
\* and without a scan; a file that was opened is closed exactly once before
\* the call returns, on every exit path of the scan.
C10_OpenCloseDiscipline ==
    /\ opens <= 1 /\ closes <= opens
    /\ isOpen <=> (opens = 1 /\ closes = 0)
    /\ pc = "done" => ~isOpen /\ closes = opens
    /\ (LinuxCheck /\ pc = "done" /\ call.host \in BadHosts) =>
           result = [found |-> FALSE, err |-> "ErrInvalidIPAddress"] /\ opens = 0
    /\ (LinuxCheck /\ pc = "done" /\ call.host \in PlainV6Hosts) =>
           result = [found |-> FALSE, err |-> "ErrIPv6NotImplemented"] /\ opens = 0
    /\ (LinuxCheck /\ pc = "done" /\ call.host \in {h.text : h \in V4Hosts}) =>
           IF fsys.open # "ok"
           THEN /\ result = [found |-> FALSE, err |-> fsys.open]
                /\ opens = 0 /\ rowsRead = 0 /\ scanErr = "nil"
           ELSE opens = 1 /\ closes = 1
    /\ pc \in {"header", "rows", "close"} => isOpen

\* C10's case: the scan ended on a malformed row and the call has returned.
C10_Witness ==
    /\ LinuxCheck /\ pc = "done"
    /\ result = [found |-> FALSE, err |-> "errInvalidMPTCPEntry"]
    /\ opens = 1 /\ closes = 1 /\ ~isOpen

====
